---------------------------- MODULE Spec2Model ----------------------------
(***************************************************************************)
(* Model of organ_transport_routing_time_uncertainity_stochastic_code.py:  *)
(* a sweep over viability limits that, for each limit, solves a select-one *)
(* mixed-integer program (RP), evaluates the expected-value policy (EEV)   *)
(* and the wait-and-see bound (WS), and appends one row to results.        *)
(*                                                                         *)
(* Arithmetic is exact.  A probability is stored as an integer numerator   *)
(* over the common denominator ProbTotal (0.1 is 1 over 10), so RP, EEV,   *)
(* WS, EVPI and VSS are held in units of 1/ProbTotal, and avg_times in the *)
(* same unit.  Floating-point rounding of the source is outside the model. *)
(***************************************************************************)
EXTENDS Integers, Sequences, FiniteSets, TLC

VARIABLES
    hospitals,        \* list of facility identifiers
    survival,         \* facility -> value if reached
    scenarios,        \* list of scenario identifiers
    prob,             \* scenario -> probability numerator
    travel_times,     \* scenario -> facility -> travel time
    viability_range,  \* the thresholds of the sweep
    results,          \* rows appended so far
    pos,              \* index in viability_range of the next threshold
    pc,               \* "loop", "done" or "aborted"
    x,                \* value(model.x) of the last solve
    y,                \* value(model.y) of the last solve
    best_h            \* EEV selection of the last iteration that made one

vars == <<hospitals, survival, scenarios, prob, travel_times, viability_range,
          results, pos, pc, x, y, best_h>>

inputs == <<hospitals, survival, scenarios, prob, travel_times, viability_range>>

----------------------------------------------------------------------------
(* Bounds of the generated inputs *)

MaxSurvival == 2
MaxTime == 2
ProbDenom == 3

----------------------------------------------------------------------------
(* Helpers *)

RECURSIVE SumFn(_, _)
SumFn(f, D) ==
    IF D = {} THEN 0
    ELSE LET e == CHOOSE e \in D : TRUE IN f[e] + SumFn(f, D \ {e})

SetMax(V) == CHOOSE m \in V : \A n \in V : n <= m

SetOf(seq) == {seq[i] : i \in DOMAIN seq}

\* first element of seq that lies in D, in list order
FirstIn(seq, D) ==
    seq[CHOOSE i \in DOMAIN seq :
            /\ seq[i] \in D
            /\ \A j \in DOMAIN seq : seq[j] \in D => i <= j]

range(lo, hi) == [i \in 1..(IF hi > lo THEN hi - lo ELSE 0) |-> lo + i - 1]

H == SetOf(hospitals)
S == SetOf(scenarios)
ProbTotal == SumFn(prob, S)

----------------------------------------------------------------------------
(* Input data *)

SourceHospitals == <<"A", "B", "C", "D", "E", "F", "G", "H", "I", "J">>

SourceSurvival ==
    [h \in SetOf(SourceHospitals) |->
        CASE h = "A" -> 15 [] h = "B" -> 18 [] h = "C" -> 22 [] h = "D" -> 19
          [] h = "E" -> 25 [] h = "F" -> 17 [] h = "G" -> 20 [] h = "H" -> 16
          [] h = "I" -> 23 [] h = "J" -> 21]

SourceScenarios == <<"Very Low", "Low", "Medium", "High", "Extreme">>

SourceProb ==
    [s \in SetOf(SourceScenarios) |->
        CASE s = "Very Low" -> 1 [] s = "Low" -> 2 [] s = "Medium" -> 4
          [] s = "High" -> 2 [] s = "Extreme" -> 1]

TimeRow(a, b, c, d, e, f, g, h, i, j) ==
    [k \in SetOf(SourceHospitals) |->
        CASE k = "A" -> a [] k = "B" -> b [] k = "C" -> c [] k = "D" -> d
          [] k = "E" -> e [] k = "F" -> f [] k = "G" -> g [] k = "H" -> h
          [] k = "I" -> i [] k = "J" -> j]

SourceTravelTimes ==
    [s \in SetOf(SourceScenarios) |->
        CASE s = "Very Low" -> TimeRow(2, 3, 4, 3, 5, 2, 4, 3, 5, 4)
          [] s = "Low"      -> TimeRow(3, 4, 5, 4, 6, 3, 5, 4, 6, 5)
          [] s = "Medium"   -> TimeRow(4, 6, 7, 5, 8, 5, 7, 6, 8, 7)
          [] s = "High"     -> TimeRow(6, 8, 9, 7, 10, 6, 9, 8, 10, 9)
          [] s = "Extreme"  -> TimeRow(8, 9, 10, 9, 12, 8, 11, 10, 12, 11)]

SourceViabilityRange == range(6, 13)

\* the six-facility variant: the same tables restricted to A..F
SixHospitals == SubSeq(SourceHospitals, 1, 6)

Restrict(f, D) == [e \in D |-> f[e]]

\* the data of the source file
InitSource ==
    /\ hospitals = SourceHospitals
    /\ survival = SourceSurvival
    /\ scenarios = SourceScenarios
    /\ prob = SourceProb
    /\ travel_times = SourceTravelTimes
    /\ viability_range = SourceViabilityRange

InitSix ==
    /\ hospitals = SixHospitals
    /\ survival = Restrict(SourceSurvival, SetOf(SixHospitals))
    /\ scenarios = SourceScenarios
    /\ prob = SourceProb
    /\ travel_times =
          [s \in SetOf(SourceScenarios) |->
              Restrict(SourceTravelTimes[s], SetOf(SixHospitals))]
    /\ viability_range = SourceViabilityRange

\* every well-formed input over two facilities and two scenarios within the
\* bounds: non-negative values and times, positive probabilities summing to
\* one, a total travel-time table, an increasing sweep
SmallHospitals == SubSeq(SourceHospitals, 1, 2)
SmallScenarios == SubSeq(SourceScenarios, 1, 2)

InitSmall ==
    /\ hospitals = SmallHospitals
    /\ scenarios = SmallScenarios
    /\ survival \in [SetOf(SmallHospitals) -> 0..MaxSurvival]
    /\ prob \in {p \in [SetOf(SmallScenarios) -> 1..ProbDenom] :
                    SumFn(p, SetOf(SmallScenarios)) = ProbDenom}
    /\ travel_times \in
          [SetOf(SmallScenarios) -> [SetOf(SmallHospitals) -> 0..MaxTime]]
    /\ viability_range = range(0, MaxTime + 1)

Init ==
    /\ InitSource \/ InitSix \/ InitSmall
    /\ results = <<>>
    /\ pos = 1
    /\ pc = "loop"
    /\ x = <<>>
    /\ y = <<>>
    /\ best_h = "unbound"

----------------------------------------------------------------------------
(* The Pyomo model of one iteration and its solution by the solver *)

\* variant: the objective without the probability weights
obj_rule_unweighted(yy) ==
    SumFn([p \in H \X S |-> survival[p[1]] * yy[p]], H \X S)

\* objective: sum of prob[s] * survival[h] * y[h, s]
obj_rule(yy) ==
    SumFn([p \in H \X S |-> prob[p[2]] * survival[p[1]] * yy[p]], H \X S)

\* sum of x[h] over H equals 1
select_one(xx) == SumFn(xx, H) = 1

\* y[h, s] <= x[h]
link_x_y(xx, yv, h, s) == yv <= xx[h]

\* variant: a travel time equal to the limit counts as too late
time_limit_strict(yv, h, s, viability) ==
    IF travel_times[s][h] < viability THEN yv <= 1 ELSE yv = 0

\* variant: the comparison is inverted
time_limit_reversed(yv, h, s, viability) ==
    IF travel_times[s][h] >= viability THEN yv <= 1 ELSE yv = 0

\* variant: the unreachable case does not force the indicator to 0
time_limit_unforced(yv, h, s, viability) ==
    IF travel_times[s][h] <= viability THEN yv <= 1 ELSE yv <= 1

\* y[h, s] <= 1 when the facility is reachable in time, y[h, s] = 0 otherwise
time_limit(yv, h, s, viability) ==
    IF travel_times[s][h] <= viability THEN yv <= 1 ELSE yv = 0

\* the pairs whose indicator the link and time-limit constraints let be 1
FreePairs(xx, viability) ==
    {p \in H \X S :
        link_x_y(xx, 1, p[1], p[2]) /\ time_limit(1, p[1], p[2], viability)}

\* the binary assignments meeting select_one, link and timelimit.  Both
\* constraints on y bound one variable each and admit 0, so the admissible
\* y are the indicator functions of the subsets of FreePairs.
FeasibleAssignments(viability) ==
    UNION {
      { [x |-> xx, y |-> [p \in H \X S |-> IF p \in Y THEN 1 ELSE 0]] :
            Y \in SUBSET FreePairs(xx, viability) } :
        xx \in {xx \in [H -> {0, 1}] : select_one(xx)} }

\* the assignments the solver may return: those of maximum objective
Solve(viability) ==
    LET F == FeasibleAssignments(viability)
        best == SetMax({obj_rule(a.y) : a \in F})
    IN  {a \in F : obj_rule(a.y) = best}

\* first h in hospitals with value(model.x[h]) > 0.5, else None
selected_hospital(xx) ==
    IF \E h \in H : 2 * xx[h] > 1
    THEN FirstIn(hospitals, {h \in H : 2 * xx[h] > 1})
    ELSE "None"

----------------------------------------------------------------------------
(* EEV *)

\* probability-weighted average travel time, in units of 1/ProbTotal
avg_times(h) == SumFn([s \in S |-> prob[s] * travel_times[s][h]], S)

\* facilities whose average time is within the limit
feasible_eev(viability) == {h \in H : avg_times(h) <= viability * ProbTotal}

\* max(feasible_eev.items(), key=value): the first facility of maximum value
eev_best(viability) ==
    LET F == feasible_eev(viability)
        m == SetMax({survival[h] : h \in F})
    IN  FirstIn(hospitals, {h \in F : survival[h] = m})

\* variant: the comparison is inverted
eev_value_reversed(h, viability) ==
    SumFn([s \in S |-> IF travel_times[s][h] > viability
                       THEN prob[s] * survival[h] ELSE 0], S)

\* true expected value of committing to facility h
eev_value(h, viability) ==
    SumFn([s \in S |-> IF travel_times[s][h] <= viability
                       THEN prob[s] * survival[h] ELSE 0], S)

EEV(viability) ==
    IF feasible_eev(viability) # {}
    THEN eev_value(eev_best(viability), viability)
    ELSE 0

----------------------------------------------------------------------------
(* WS *)

\* variant: a travel time equal to the limit counts as too late
feasibles_strict(s, viability) == {h \in H : travel_times[s][h] < viability}

feasibles(s, viability) == {h \in H : travel_times[s][h] <= viability}

WS(viability) ==
    SumFn([s \in S |->
              prob[s] * (IF feasibles(s, viability) # {}
                         THEN SetMax({survival[h] : h \in feasibles(s, viability)})
                         ELSE 0)], S)

----------------------------------------------------------------------------
(* The sweep *)

\* (viability, RP, EEV, WS, EVPI, VSS, selected_hospital)
ResultRow(viability, sol) ==
    LET RP == obj_rule(sol.y)
    IN  <<viability, RP, EEV(viability), WS(viability),
          WS(viability) - RP, RP - EEV(viability), selected_hospital(sol.x)>>

\* variant: the row is inserted at the front
results_append_front(rows, row) == <<row>> \o rows

results_append(rows, row) == Append(rows, row)

\* one iteration of the loop whose solve returns an optimal assignment
LoopBody ==
    /\ pc = "loop"
    /\ pos <= Len(viability_range)
    /\ LET viability == viability_range[pos] IN
         \E sol \in Solve(viability) :
            /\ x' = sol.x
            /\ y' = sol.y
            /\ best_h' = IF feasible_eev(viability) # {}
                         THEN eev_best(viability) ELSE best_h
            /\ results' = results_append(results, ResultRow(viability, sol))
    /\ pos' = pos + 1
    /\ UNCHANGED <<pc, inputs>>

\* the solve raises: nothing catches it, the script ends in the iteration
SolverFailure ==
    /\ pc = "loop"
    /\ pos <= Len(viability_range)
    /\ pc' = "aborted"
    /\ UNCHANGED <<inputs, results, pos, x, y, best_h>>

\* the thresholds are exhausted: the rows are plotted and printed
LoopExit ==
    /\ pc = "loop"
    /\ pos > Len(viability_range)
    /\ pc' = "done"
    /\ UNCHANGED <<inputs, results, pos, x, y, best_h>>

Next == LoopBody \/ SolverFailure \/ LoopExit

Spec == Init /\ [][Next]_vars

----------------------------------------------------------------------------
(* Properties of the rows.  A row r is                                     *)
(* <<viability, RP, EEV, WS, EVPI, VSS, selected_hospital>>.               *)

\* closed form of the expected value of committing to facility h:
\* value times the probability mass of the scenarios in which it is reached
ExpectedValue(h, viability) ==
    survival[h] * SumFn([s \in S |-> IF travel_times[s][h] <= viability
                                     THEN prob[s] ELSE 0], S)

BestExpectedValue(viability) == SetMax({ExpectedValue(h, viability) : h \in H})

AllReachable(viability) ==
    \A s \in S : \A h \in H : travel_times[s][h] <= viability

NoneReachable(viability) ==
    \A s \in S : \A h \in H : viability < travel_times[s][h]

\* C1: every row satisfies EEV <= RP <= WS, with EVPI = WS - RP >= 0 and
\* VSS = RP - EEV >= 0, also when no facility passes the average-time filter
C1_Ordering ==
    \A i \in DOMAIN results :
        LET r == results[i] IN
            /\ r[3] <= r[2]
            /\ r[2] <= r[4]
            /\ r[5] = r[4] - r[2]
            /\ r[5] >= 0
            /\ r[6] = r[2] - r[3]
            /\ r[6] >= 0

\* a row where no facility passes the average-time filter, EEV is 0 and
\* 0 < RP < WS
C1_Witness ==
    \E i \in DOMAIN results :
        LET r == results[i] IN
            /\ feasible_eev(r[1]) = {}
            /\ r[3] = 0
            /\ 0 < r[2]
            /\ r[2] < r[4]

\* C2: for rows at thresholds t1 <= t2, RP at t2 >= RP at t1 and WS at t2 >=
\* WS at t1
C2_RPWSMonotone ==
    \A i, j \in DOMAIN results :
        results[i][1] <= results[j][1] =>
            /\ results[i][2] <= results[j][2]
            /\ results[i][4] <= results[j][4]

\* two rows between which both RP and WS grow strictly
C2_Witness ==
    \E i, j \in DOMAIN results :
        /\ results[i][1] < results[j][1]
        /\ results[i][2] < results[j][2]
        /\ results[i][4] < results[j][4]

\* C3 as stated: for rows at thresholds t1 <= t2, EEV at t2 >= EEV at t1
C3_EEVMonotone ==
    \A i, j \in DOMAIN results :
        results[i][1] <= results[j][1] => results[i][3] <= results[j][3]

\* C3 amended: for rows at thresholds t1 <= t2, EEV at t2 >= EEV at t1
\* whenever no facility passes the average-time filter at t1 or the facility
\* chosen on average time is the same at t1 and t2
C3_EEVMonotoneSameChoice ==
    \A i, j \in DOMAIN results :
        LET t1 == results[i][1]
            t2 == results[j][1]
        IN  /\ t1 <= t2
            /\ \/ feasible_eev(t1) = {}
               \/ /\ feasible_eev(t2) # {}
                  /\ eev_best(t1) = eev_best(t2)
            => results[i][3] <= results[j][3]

\* two rows with the same EEV choice between which EEV grows strictly
C3_Witness ==
    \E i, j \in DOMAIN results :
        LET t1 == results[i][1]
            t2 == results[j][1]
        IN  /\ t1 < t2
            /\ feasible_eev(t1) # {}
            /\ eev_best(t1) = eev_best(t2)
            /\ 0 < results[i][3]
            /\ results[i][3] < results[j][3]

IsSixFacilityExample ==
    /\ hospitals = SixHospitals
    /\ prob = SourceProb
    /\ survival = Restrict(SourceSurvival, SetOf(SixHospitals))

\* C4 as stated: in the six-facility example the row of threshold 8 has
\* RP = 15 (150 tenths) and selected_hospital = A
C4_SelectsA ==
    IsSixFacilityExample =>
        \A i \in DOMAIN results :
            results[i][1] = 8 =>
                /\ results[i][2] = 15 * ProbTotal
                /\ results[i][7] = "A"

\* C4 amended: in the six-facility example the row of threshold 8 has
\* RP = 17.5 (175 tenths) and selected_hospital = E
C4_SelectsE ==
    IsSixFacilityExample =>
        \A i \in DOMAIN results :
            results[i][1] = 8 =>
                /\ 2 * results[i][2] = 35 * ProbTotal
                /\ results[i][7] = "E"

\* the six-facility example has produced its row for threshold 8
C4_Witness ==
    /\ IsSixFacilityExample
    /\ \E i \in DOMAIN results : results[i][1] = 8

\* C5: if the threshold is at least every travel time, RP selects a facility
\* of maximum value, the EEV choice is that same facility, and the row has
\* RP = EEV = WS = the maximum value with EVPI = 0 and VSS = 0
C5_AllReachable ==
    \A i \in DOMAIN results :
        LET r == results[i]
            top == SetMax({survival[h] : h \in H})
        IN  AllReachable(r[1]) =>
                /\ r[7] \in H
                /\ survival[r[7]] = top
                /\ eev_best(r[1]) = r[7]
                /\ r[2] = top * ProbTotal
                /\ r[3] = top * ProbTotal
                /\ r[4] = top * ProbTotal
                /\ r[5] = 0
                /\ r[6] = 0

\* C6: if the threshold is below every travel time, the row has RP = 0,
\* EEV = 0, WS = 0, EVPI = 0 and VSS = 0
C6_NoneReachable ==
    \A i \in DOMAIN results :
        LET r == results[i] IN
            NoneReachable(r[1]) =>
                r[2] = 0 /\ r[3] = 0 /\ r[4] = 0 /\ r[5] = 0 /\ r[6] = 0

\* a row at a threshold below every travel time, with facilities of
\* positive value
C6_Witness ==
    \E i \in DOMAIN results :
        /\ NoneReachable(results[i][1])
        /\ \A h \in H : survival[h] > 0
        /\ results[i][2] = 0

\* C7: selected_hospital is the first facility, in list order, among those
\* of maximum expected value, whichever optimal assignment was returned
C7_TieBreakFirst ==
    \A i \in DOMAIN results :
        LET r == results[i] IN
            r[7] = FirstIn(hospitals,
                       {h \in H : ExpectedValue(h, r[1]) = BestExpectedValue(r[1])})

\* C8: when the solve of the threshold at pos has failed, the sweep is not
\* cut short: that threshold has a row, and the row carries a failed marker
C8_FailureIsolated ==
    pc = "aborted" =>
        /\ Len(results) >= pos
        /\ results[pos][7] = "failed"

\* C9: results is a prefix-aligned image of viability_range with strictly
\* increasing thresholds, rows are only appended, and at the end of the loop
\* there is one row per threshold
C9_PrefixAligned ==
    /\ Len(results) <= Len(viability_range)
    /\ \A i \in DOMAIN results : results[i][1] = viability_range[i]
    /\ \A i, j \in DOMAIN results : i < j => results[i][1] < results[j][1]
    /\ pc = "done" => Len(results) = Len(viability_range)

C9_AppendOnly ==
    /\ Len(results') >= Len(results)
    /\ SubSeq(results', 1, Len(results)) = results

C9_SweepOrdering == [] C9_PrefixAligned /\ [][C9_AppendOnly]_vars

\* the loop has ended with one row for each of at least three thresholds
C9_Witness ==
    /\ pc = "done"
    /\ Len(results) = Len(viability_range)
    /\ Len(results) >= 3

\* C10: the optimum of the select-one program equals the closed form
\* max over h of survival[h] times the reachable probability mass, and when
\* it is positive the facility with x = 1 attains it
C10_ClosedForm ==
    \A i \in DOMAIN results :
        LET r == results[i] IN
            /\ r[2] = BestExpectedValue(r[1])
            /\ r[2] > 0 =>
                  /\ r[7] \in H
                  /\ ExpectedValue(r[7], r[1]) = r[2]

\* a row whose selected facility is not the one of greatest value and whose
\* optimum is positive and attained by only that facility
C10_Witness ==
    \E i \in DOMAIN results :
        LET r == results[i] IN
            /\ r[2] > 0
            /\ r[7] \in H
            /\ \E h \in H : survival[h] > survival[r[7]]
            /\ \A h \in H \ {r[7]} : ExpectedValue(h, r[1]) < r[2]

=============================================================================
